---- MODULE Spec2Model ----
(***************************************************************************)
(* Model of app.py: the Streamlit script main(), Config.from_env and the   *)
(* ModelConverter operations (setup_repository, _get_ref_type,             *)
(* _extract_archive, convert_model, upload_model).                         *)
(*                                                                         *)
(* Every script run (a Streamlit rerun of main) is one pass of a session   *)
(* through the program counter below.  The filesystem objects the code     *)
(* touches are global: the checkout (repo_path), the downloaded archive    *)
(* (archive_path) and the per-model output directories (models).  Network  *)
(* calls, the tar extraction, the rename, the subprocess and the hub push  *)
(* can each fail; their outcome is drawn with \E.  unlink(missing_ok),     *)
(* rmtree and the TemporaryDirectory exit act as documented on a working   *)
(* filesystem.                                                             *)
(***************************************************************************)
EXTENDS Integers, Sequences, FiniteSets, TLC

VARIABLES
    session,       \* per session: position in main() and the locals of the run
    secrets,       \* st.secrets has a non-empty HF_TOKEN
    environ,       \* os.environ has a non-empty SPACE_AUTHOR_NAME
    repo_path,     \* ./transformers.js: "absent", "partial" or "full"
    archive_path,  \* ./transformers_3.0.0.tar.gz: "absent", "partial", "tags", "heads"
    models,        \* repo_path/models/<model id>, per model id
    hub            \* upload_folder calls the hub accepted

vars == <<session, secrets, environ, repo_path, archive_path, models, hub>>

\* ------------------------------------------------------------------ bounds
MaxRuns == 3

\* --------------------------------------------------------------- constants
Sessions == {1, 2}
ModelIds == {"org/model-x", "org/model-y"}
transformers_version == "3.0.0"
transformers_base_url == "https://github.com/xenova/transformers.js/archive/refs"
HTTP_OK == 200
ProbeOutcomes == {200, 404, -1}       \* -1: urlopen raised
StderrTexts == {"", "warning"}

\* Directory entries the converter can leave at the top of the output directory.
Entries == {"model.onnx", "config.json", "cache.onnx"}
is_file(e) == e \in {"model.onnx", "config.json"}
suffix(e) == IF e \in {"model.onnx", "cache.onnx"} THEN ".onnx" ELSE ".json"

NoDir == [exists |-> FALSE, top |-> {}, onnx_dir |-> FALSE, onnx |-> {}]
Dir(top, sub, files) == [exists |-> TRUE, top |-> top, onnx_dir |-> sub, onnx |-> files]

\* What scripts.convert can leave behind in models/<id> (an external program).
ConverterOutputs ==
    { NoDir,
      Dir({}, FALSE, {}),
      Dir({"model.onnx", "config.json"}, FALSE, {}),
      Dir({"model.onnx", "config.json", "cache.onnx"}, FALSE, {}),
      Dir({"config.json"}, TRUE, {"model.onnx"}) }

NoProc == [kind |-> "none", returncode |-> 0, stderr |-> "", exc |-> ""]
NoResult == [set |-> FALSE, success |-> FALSE, text |-> ""]

\* The locals of one script run, as they are when the run starts.
NewRun(runs, token, input, proceed) ==
    [ pc |-> "from_env", runs |-> runs,
      user_hf_token |-> token, input_model_id |-> input, proceed |-> proceed,
      shown |-> {},
      config |-> "none", whoami |-> 0,
      entry |-> "none", probe |-> 0, ref_type |-> "none", downloaded |-> <<>>,
      tmp_dir |-> "none", exc |-> FALSE, failed_at |-> "none", ops |-> <<>>,
      setup |-> "none",
      proc |-> NoProc, result |-> NoResult,
      upload_exc |-> FALSE, upload_failed_at |-> "none", upload_steps |-> <<>>,
      error |-> "unset",
      calls |-> <<>>, status |-> "none" ]

Idle == [NewRun(0, FALSE, "", FALSE) EXCEPT !.pc = "idle"]
Off == [NewRun(0, FALSE, "", FALSE) EXCEPT !.pc = "off"]
AtSetup == [NewRun(1, FALSE, "", FALSE) EXCEPT
               !.pc = "setup_repository", !.config = "ok", !.calls = <<"from_env">>]

InitFiles ==
    /\ secrets \in BOOLEAN
    /\ environ \in BOOLEAN
    /\ repo_path \in {"absent", "full"}
    /\ archive_path = "absent"
    /\ models = [m \in ModelIds |-> NoDir]
    /\ hub = {}

\* One session, before its first script run.
Init ==
    /\ InitFiles
    /\ session = [s \in Sessions |-> IF s = 1 THEN Idle ELSE Off]

\* Two sessions whose script runs both reached converter.setup_repository().
InitConc ==
    /\ InitFiles
    /\ secrets = TRUE
    /\ session = [s \in Sessions |-> AtSetup]

Set(s, r) == session' = [session EXCEPT ![s] = r]

\* -------------------------------------------------------------- the driver
\* A user interaction (or page load) reruns main().  A widget returns a value
\* only if the previous run rendered it.
StartRun(s) ==
    /\ session[s].pc = "idle"
    /\ session[s].runs < MaxRuns
    /\ \E input \in (IF "model_id" \in session[s].shown THEN ModelIds \cup {""} ELSE {""}),
          proceed \in (IF "Proceed" \in session[s].shown THEN BOOLEAN ELSE {FALSE}),
          token \in (IF "user_hf_token" \in session[s].shown THEN BOOLEAN ELSE {FALSE}) :
         Set(s, NewRun(session[s].runs + 1, token, input, proceed))
    /\ UNCHANGED <<secrets, environ, repo_path, archive_path, models, hub>>

\* ---------------------------------------------------------- Config.from_env
\* Line 35-40: whoami is called unless the user token is absent and
\* SPACE_AUTHOR_NAME is set.
calls_whoami(user_token, author_name) == user_token \/ ~author_name

\* Line 41: hf_token = user_token or system_token (is it truthy?).
hf_token(user_token, system_token) == user_token \/ system_token

from_env(s) ==
    LET r == session[s]
        w == calls_whoami(r.user_hf_token, environ)
    IN
    /\ r.pc = "from_env"
    /\ \E whoami_ok \in BOOLEAN :
         LET r1 == [r EXCEPT !.calls = Append(@, "from_env"),
                             !.whoami = IF w THEN 1 ELSE 0]
         IN
         IF w /\ ~whoami_ok
         THEN Set(s, [r1 EXCEPT !.config = "HfHubHTTPError",
                                !.status = "error", !.pc = "idle"])
         ELSE IF ~hf_token(r.user_hf_token, secrets)
         THEN Set(s, [r1 EXCEPT !.config = "ValueError",
                                !.status = "error", !.pc = "idle"])
         ELSE Set(s, [r1 EXCEPT !.config = "ok", !.pc = "setup_repository"])
    /\ UNCHANGED <<secrets, environ, repo_path, archive_path, models, hub>>

\* -------------------------------------------------- ModelConverter: bootstrap
\* Line 67: self.config.repo_path.exists()
never_exists(p) == FALSE
repo_path_exists(p) == p # "absent"

\* Line 60-63: "tags" only for a probe that answered 200, "heads" for any
\* other status and for an exception.
tags_unless_raised(code) == IF code # -1 THEN "tags" ELSE "heads"
_get_ref_type(code) == IF code = HTTP_OK THEN "tags" ELSE "heads"

\* Line 71: f"{base}/{ref_type}/{version}.tar.gz", as its path segments.
archive_url(ref_type) == <<transformers_base_url, ref_type, transformers_version>>

\* Line 88-93: an exception in tarfile.open/extractall leaves the with block,
\* so the rename is skipped.
rename_anyway == "rename"
after_extract_error == "exit_tmp"

\* Line 80-81: finally: archive_path.unlink(missing_ok=True)
unlink_at_end_of_try(archive, exc) == IF exc THEN archive ELSE "absent"
finally_unlink(archive, exc) == "absent"

SetupInner == {"urlopen", "urlretrieve", "extractall", "rename", "exit_tmp", "unlink"}

\* Line 65-68: the existence check.  entry records what was on disk when the
\* call was entered.
lock_then_check(s) ==
    LET r == [session[s] EXCEPT !.calls = Append(@, "setup_repository"),
                                !.entry = IF repo_path = "absent" THEN "absent" ELSE "exists"]
    IN
    /\ session[s].pc = "setup_repository"
    /\ \A t \in Sessions \ {s} : session[t].pc \notin SetupInner
    /\ IF repo_path_exists(repo_path)
       THEN Set(s, [r EXCEPT !.setup = "returned", !.pc = "text_input"])
       ELSE Set(s, [r EXCEPT !.pc = "urlopen"])
    /\ UNCHANGED <<secrets, environ, repo_path, archive_path, models, hub>>

setup_repository(s) ==
    LET r == [session[s] EXCEPT !.calls = Append(@, "setup_repository"),
                                !.entry = IF repo_path = "absent" THEN "absent" ELSE "exists"]
    IN
    /\ session[s].pc = "setup_repository"
    /\ IF repo_path_exists(repo_path)
       THEN Set(s, [r EXCEPT !.setup = "returned", !.pc = "text_input"])
       ELSE Set(s, [r EXCEPT !.pc = "urlopen"])
    /\ UNCHANGED <<secrets, environ, repo_path, archive_path, models, hub>>

\* Line 70, 56-63: the probe of the tag archive.
urlopen(s) ==
    /\ session[s].pc = "urlopen"
    /\ \E code \in ProbeOutcomes :
         Set(s, [session[s] EXCEPT !.probe = code, !.ref_type = _get_ref_type(code),
                                   !.ops = Append(@, "urlopen"), !.pc = "urlretrieve"])
    /\ UNCHANGED <<secrets, environ, repo_path, archive_path, models, hub>>

\* Line 71-75: the download.  It can fail before the local file is opened
\* ("error") or while it is written ("partial").
urlretrieve(s) ==
    LET r == [session[s] EXCEPT !.downloaded = archive_url(session[s].ref_type),
                                !.ops = Append(@, "urlretrieve")]
        raised == [r EXCEPT !.exc = TRUE, !.failed_at = "download", !.pc = "unlink"]
    IN
    /\ session[s].pc = "urlretrieve"
    /\ \E outcome \in {"ok", "error", "partial"} :
         CASE outcome = "ok" ->
                /\ archive_path' = r.ref_type
                /\ Set(s, [r EXCEPT !.pc = "extractall"])
           [] outcome = "error" ->
                /\ archive_path' = archive_path
                /\ Set(s, raised)
           [] outcome = "partial" ->
                /\ archive_path' = "partial"
                /\ Set(s, raised)
    /\ UNCHANGED <<secrets, environ, repo_path, models, hub>>

\* Line 88-90: the temporary directory, tarfile.open and extractall.
extractall(s) ==
    LET r == [session[s] EXCEPT !.ops = Append(@, "extractall")]
        raised == [r EXCEPT !.exc = TRUE, !.failed_at = "extract", !.pc = after_extract_error]
    IN
    /\ session[s].pc = "extractall"
    /\ IF archive_path \notin {"tags", "heads"}
       THEN Set(s, [raised EXCEPT !.tmp_dir = "empty"])
       ELSE \E ok \in BOOLEAN :
              IF ok THEN Set(s, [r EXCEPT !.tmp_dir = "full", !.pc = "rename"])
                    ELSE Set(s, [raised EXCEPT !.tmp_dir = "partial"])
    /\ UNCHANGED <<secrets, environ, repo_path, archive_path, models, hub>>

\* Line 92-93: next(iterdir()) and the rename onto repo_path.  A rename onto
\* an existing non-empty directory raises.
rename(s) ==
    LET r == [session[s] EXCEPT !.ops = Append(@, "rename"), !.pc = "exit_tmp"]
        raised == [r EXCEPT !.exc = TRUE,
                            !.failed_at = IF @ = "none" THEN "rename" ELSE @]
    IN
    /\ session[s].pc = "rename"
    /\ IF r.tmp_dir = "empty" \/ repo_path # "absent"
       THEN /\ Set(s, raised)
            /\ repo_path' = repo_path
       ELSE \E ok \in BOOLEAN :
              IF ok THEN /\ repo_path' = r.tmp_dir
                         /\ Set(s, [r EXCEPT !.tmp_dir = "empty"])
                    ELSE /\ repo_path' = repo_path
                         /\ Set(s, raised)
    /\ UNCHANGED <<secrets, environ, archive_path, models, hub>>

\* Line 88: the TemporaryDirectory is removed when the with block is left.
exit_tmp(s) ==
    /\ session[s].pc = "exit_tmp"
    /\ Set(s, [session[s] EXCEPT !.tmp_dir = "none", !.pc = "unlink"])
    /\ UNCHANGED <<secrets, environ, repo_path, archive_path, models, hub>>

\* Line 78-81: the finally block, then the return or the RuntimeError, which
\* main() catches at line 196.
unlink(s) ==
    LET r == [session[s] EXCEPT !.ops = Append(@, "unlink")] IN
    /\ session[s].pc = "unlink"
    /\ archive_path' = finally_unlink(archive_path, r.exc)
    /\ IF r.exc
       THEN Set(s, [r EXCEPT !.setup = "RuntimeError", !.status = "error", !.pc = "idle"])
       ELSE Set(s, [r EXCEPT !.setup = "returned", !.pc = "text_input"])
    /\ UNCHANGED <<secrets, environ, repo_path, models, hub>>

Bootstrap(s) ==
    \/ setup_repository(s)
    \/ urlopen(s)
    \/ urlretrieve(s)
    \/ extractall(s)
    \/ rename(s)
    \/ exit_tmp(s)
    \/ unlink(s)

\* ------------------------------------------------------- main: the widgets
\* Line 159-164: the model id field; an empty value ends the run.
text_input(s) ==
    LET r == [session[s] EXCEPT !.shown = @ \cup {"model_id"}] IN
    /\ session[s].pc = "text_input"
    /\ IF r.input_model_id = ""
       THEN Set(s, [r EXCEPT !.status = "awaiting_input", !.pc = "idle"])
       ELSE Set(s, [r EXCEPT !.pc = "button"])
    /\ UNCHANGED <<secrets, environ, repo_path, archive_path, models, hub>>

\* Line 166-175: the token field and the Proceed button; the run ends unless
\* this rerun was caused by the button.
button(s) ==
    LET r == [session[s] EXCEPT !.shown = @ \cup {"user_hf_token", "Proceed"}] IN
    /\ session[s].pc = "button"
    /\ IF ~r.proceed
       THEN Set(s, [r EXCEPT !.status = "awaiting_confirmation", !.pc = "idle"])
       ELSE Set(s, [r EXCEPT !.pc = "convert_model"])
    /\ UNCHANGED <<secrets, environ, repo_path, archive_path, models, hub>>

\* ------------------------------------------------ ModelConverter.convert_model
\* Line 97-119: the (success, text) pair for a subprocess outcome.
success_iff_quiet(proc) ==
    IF proc.kind = "exception"
    THEN [set |-> TRUE, success |-> FALSE, text |-> proc.exc]
    ELSE [set |-> TRUE, success |-> proc.stderr = "", text |-> proc.stderr]
convert_result(proc) ==
    IF proc.kind = "exception"
    THEN [set |-> TRUE, success |-> FALSE, text |-> proc.exc]
    ELSE IF proc.returncode # 0
    THEN [set |-> TRUE, success |-> FALSE, text |-> proc.stderr]
    ELSE [set |-> TRUE, success |-> TRUE, text |-> proc.stderr]

\* Line 179-181: main() returns after a failed conversion.
upload_regardless(success) == "mkdir"
after_convert(success) == IF ~success THEN "idle" ELSE "mkdir"

\* What subprocess.run can do: raise, or run the converter to an exit code.
ProcOutcomes ==
    { [kind |-> "exception", returncode |-> 0, stderr |-> "", exc |-> "OSError"] }
    \cup { [kind |-> "exit", returncode |-> rc, stderr |-> e, exc |-> ""] :
             rc \in {0, 1}, e \in StderrTexts }

\* Line 177-184 and 95-119: the conversion and main()'s test of its result.
\* The converter may have written the output directory whatever its exit code.
convert_model(s) ==
    LET r == session[s]
        m == r.input_model_id
    IN
    /\ r.pc = "convert_model"
    /\ \E proc \in ProcOutcomes :
         LET res == convert_result(proc) IN
         /\ Set(s, [r EXCEPT !.calls = Append(@, "convert_model"),
                             !.proc = proc, !.result = res,
                             !.status = IF ~res.success THEN "Failed" ELSE "Converted",
                             !.pc = after_convert(res.success)])
         /\ IF proc.kind = "exception"
            THEN models' = models
            ELSE \E out \in ConverterOutputs \cup {models[m]} :
                   models' = [models EXCEPT ![m] = out]
    /\ UNCHANGED <<secrets, environ, repo_path, archive_path, hub>>

\* ------------------------------------------------- ModelConverter.upload_model
\* Line 131-133: the top-level entries that are moved into onnx/.
onnx_files(d) == {e \in d.top : is_file(e) /\ suffix(e) = ".onnx"}

\* Line 147: shutil.rmtree(model_folder_path, ignore_errors=True)
rmtree_strict(d, ignore_errors) ==
    IF d.exists THEN [dir |-> NoDir, raised |-> FALSE]
                ELSE [dir |-> d, raised |-> TRUE]
rmtree(d, ignore_errors) ==
    IF d.exists THEN [dir |-> NoDir, raised |-> FALSE]
                ELSE [dir |-> d, raised |-> ~ignore_errors]

UploadFailed(r, step) ==
    [r EXCEPT !.upload_exc = TRUE, !.upload_failed_at = step, !.pc = "rmtree"]

\* Line 124-128: onnx_folder_path.mkdir(exist_ok=True); the parent must exist.
mkdir(s) ==
    LET r == [session[s] EXCEPT !.calls = Append(@, "upload_model"),
                                !.upload_steps = Append(@, "mkdir")]
        m == r.input_model_id
    IN
    /\ session[s].pc = "mkdir"
    /\ IF ~models[m].exists
       THEN /\ Set(s, UploadFailed(r, "mkdir"))
            /\ models' = models
       ELSE \E ok \in BOOLEAN :
              IF ok THEN /\ Set(s, [r EXCEPT !.pc = "iterdir"])
                         /\ models' = [models EXCEPT ![m].onnx_dir = TRUE]
                    ELSE /\ Set(s, UploadFailed(r, "mkdir"))
                         /\ models' = models
    /\ UNCHANGED <<secrets, environ, repo_path, archive_path, hub>>

\* Line 131-133: the move loop; a failing rename stops it part-way.
iterdir(s) ==
    LET r == [session[s] EXCEPT !.upload_steps = Append(@, "rename")]
        m == r.input_model_id
        d == models[m]
        moved(F) == [d EXCEPT !.top = @ \ F, !.onnx = @ \cup F]
    IN
    /\ session[s].pc = "iterdir"
    /\ \/ /\ Set(s, [r EXCEPT !.pc = "upload_folder"])
          /\ models' = [models EXCEPT ![m] = moved(onnx_files(d))]
       \/ \E F \in SUBSET onnx_files(d) :
            /\ F # onnx_files(d)
            /\ Set(s, UploadFailed(r, "rename"))
            /\ models' = [models EXCEPT ![m] = moved(F)]
    /\ UNCHANGED <<secrets, environ, repo_path, archive_path, hub>>

\* Line 136-141: the push of onnx/ to the repository named by the model id.
upload_folder(s) ==
    LET r == [session[s] EXCEPT !.upload_steps = Append(@, "upload_folder")]
        m == r.input_model_id
    IN
    /\ session[s].pc = "upload_folder"
    /\ \E ok \in BOOLEAN :
         IF ok THEN /\ Set(s, [r EXCEPT !.pc = "rmtree"])
                    /\ hub' = hub \cup { [repo_id |-> m, path_in_repo |-> "onnx",
                                          files |-> models[m].onnx] }
               ELSE /\ Set(s, UploadFailed(r, "upload_folder"))
                    /\ hub' = hub
    /\ UNCHANGED <<secrets, environ, repo_path, archive_path, models>>

\* Line 141-147 and 187-194: the finally block, upload_model's return value
\* and main()'s test of it.  An exception leaving upload_model would reach
\* main()'s handler at line 196.
upload_return(s) ==
    LET r == [session[s] EXCEPT !.upload_steps = Append(@, "rmtree")]
        m == r.input_model_id
        rm == rmtree(models[m], TRUE)
        error == IF rm.raised THEN "raised" ELSE IF r.upload_exc THEN "str" ELSE "None"
    IN
    /\ session[s].pc = "rmtree"
    /\ models' = [models EXCEPT ![m] = rm.dir]
    /\ Set(s, [r EXCEPT !.error = error,
                        !.status = CASE error = "raised" -> "error"
                                     [] error = "str" -> "Failed"
                                     [] OTHER -> "Done",
                        !.pc = "idle"])
    /\ UNCHANGED <<secrets, environ, repo_path, archive_path, hub>>

Upload(s) ==
    \/ mkdir(s)
    \/ iterdir(s)
    \/ upload_folder(s)
    \/ upload_return(s)

main(s) ==
    \/ StartRun(s)
    \/ from_env(s)
    \/ Bootstrap(s)
    \/ text_input(s)
    \/ button(s)
    \/ convert_model(s)
    \/ Upload(s)

Next == \E s \in Sessions : main(s)

NextConc == \E s \in Sessions : Bootstrap(s)

Spec == Init /\ [][Next]_vars

SpecConc == InitConc /\ [][NextConc]_vars

\* ================================================================== claims
Order == <<"from_env", "setup_repository", "convert_model", "upload_model">>
IsPrefix(a, b) == Len(a) <= Len(b) /\ \A i \in 1..Len(a) : a[i] = b[i]
Called(s, f) == \E i \in 1..Len(session[s].calls) : session[s].calls[i] = f
RunEnded(s) == session[s].pc = "idle" /\ session[s].runs > 0
SetupLeft(s) == session[s].entry # "none" /\ session[s].pc \notin SetupInner

\* C1: in every run of main() the components are called in the order
\* from_env, setup_repository, convert_model, upload_model, each at most once;
\* convert_model only after from_env and setup_repository returned and a model
\* id was entered and Proceed pressed; upload_model only after convert_model
\* reported success; after a failed conversion or a failed upload the run has
\* ended and nothing further was called.
C1_Order ==
    \A s \in Sessions :
        LET r == session[s] IN
        /\ IsPrefix(r.calls, Order)
        /\ Called(s, "convert_model") =>
              /\ r.config = "ok"
              /\ r.setup = "returned"
              /\ r.input_model_id # ""
              /\ r.proceed
        /\ Called(s, "upload_model") => r.result.set /\ r.result.success
        /\ (r.result.set /\ ~r.result.success) =>
              r.pc = "idle" /\ r.status = "Failed" /\ Len(r.calls) = 3
        /\ r.error \in {"str", "raised"} => r.pc = "idle" /\ Len(r.calls) = 4

C1_Witness ==
    \E s \in Sessions :
        /\ RunEnded(s)
        /\ session[s].calls = Order
        /\ session[s].status = "Failed"

\* C2: in an environment with neither a user token nor the secret token,
\* from_env fails with the 'HF_TOKEN must be set' ValueError and never calls
\* whoami, whether or not SPACE_AUTHOR_NAME is set.
C2_NoTokenNoWhoami ==
    \A s \in Sessions :
        (session[s].config # "none" /\ ~session[s].user_hf_token /\ ~secrets) =>
            session[s].config = "ValueError" /\ session[s].whoami = 0

\* C3: when a request cycle in which the converter was invoked ends, the
\* per-model output directory of that request does not exist, whichever
\* branch main() took.
C3_OutputDirGoneAtEnd ==
    \A s \in Sessions :
        (RunEnded(s) /\ Called(s, "convert_model")) =>
            ~models[session[s].input_model_id].exists

\* C4: once upload_model has returned, the per-model output directory does
\* not exist, whether the upload succeeded or failed at the mkdir, at a move
\* or at the push; the rmtree is the last step, after the push attempt; and
\* upload_model did not raise: it returned None, or a string exactly when a
\* step failed.
C4_UploadCleansUp ==
    \A s \in Sessions :
        LET r == session[s]
            n == Len(r.upload_steps)
        IN
        (RunEnded(s) /\ Called(s, "upload_model")) =>
            /\ ~models[r.input_model_id].exists
            /\ r.error \in {"None", "str"}
            /\ r.error = "str" <=> r.upload_failed_at # "none"
            /\ n >= 2
            /\ r.upload_steps[n] = "rmtree"
            /\ \A i \in 1..(n - 1) : r.upload_steps[i] # "rmtree"

C4_Witness ==
    \E s \in Sessions :
        /\ RunEnded(s)
        /\ session[s].upload_failed_at = "mkdir"
        /\ session[s].upload_steps = <<"mkdir", "rmtree">>
        /\ session[s].error = "str"

\* C5: when setup_repository was entered with the checkout absent and has
\* completed, the archive file does not exist, on the successful path and
\* after a failed download, extraction or rename; the failure is raised as
\* the one RuntimeError.
C5_ArchiveRemoved ==
    \A s \in Sessions :
        (SetupLeft(s) /\ session[s].entry = "absent") =>
            /\ archive_path = "absent"
            /\ session[s].setup \in {"returned", "RuntimeError"}
            /\ session[s].setup = "RuntimeError" <=> session[s].failed_at # "none"

C5_Witness ==
    \E s \in Sessions :
        /\ SetupLeft(s)
        /\ session[s].ops = <<"urlopen", "urlretrieve", "extractall", "rename", "unlink">>
        /\ session[s].failed_at = "rename"
        /\ session[s].setup = "RuntimeError"

\* C6: with one session, whenever setup_repository has returned or raised the
\* checkout is absent or fully extracted; after a failure in the download or
\* the extraction it is absent; and a call that finds it absent goes on to
\* bootstrap (the probe) again.
C6_AllOrNothing ==
    /\ [](\A s \in Sessions :
            /\ session[s].pc \notin SetupInner => repo_path \in {"absent", "full"}
            /\ (SetupLeft(s) /\ session[s].failed_at \in {"download", "extract"}) =>
                  repo_path = "absent")
    /\ [][\A s \in Sessions :
            (session[s].pc = "setup_repository" /\ repo_path = "absent"
                /\ session'[s] # session[s]) => session'[s].pc = "urlopen"]_vars

C6_Witness ==
    \E s \in Sessions :
        /\ session[s].runs >= 2
        /\ SetupLeft(s)
        /\ session[s].failed_at = "extract"
        /\ session[s].tmp_dir = "none"
        /\ repo_path = "absent"

\* C7: a call of setup_repository that finds the checkout present returns
\* having performed no network and no filesystem operation; the checkout, the
\* archive path and the temporary directory are as before.
C7_Idempotent ==
    \A s \in Sessions :
        session[s].entry = "exists" =>
            /\ session[s].ops = <<>>
            /\ session[s].pc \notin SetupInner
            /\ session[s].setup = "returned"
            /\ session[s].ref_type = "none"
            /\ session[s].downloaded = <<>>
            /\ session[s].tmp_dir = "none"
            /\ repo_path = "full"
            /\ archive_path = "absent"

C7_Witness ==
    \E s \in Sessions :
        /\ session[s].runs = 3
        /\ session[s].entry = "exists"
        /\ session[s].pc = "convert_model"

\* C8: the reference type is "tags" exactly when the probe answered 200 and
\* "heads" for every other outcome, an exception included, after which the
\* download goes on; the URL downloaded is the one built from that type.
C8_RefType ==
    \A s \in Sessions :
        LET r == session[s]
            expected == IF r.probe = 200 THEN "tags" ELSE "heads"
        IN
        /\ (\E i \in 1..Len(r.ops) : r.ops[i] = "urlopen") =>
              /\ r.ref_type = expected
              /\ r.failed_at # "none" => Len(r.ops) >= 2
        /\ r.downloaded # <<>> =>
              r.downloaded = <<transformers_base_url, expected, transformers_version>>

C8_Witness ==
    \E s \in Sessions :
        /\ session[s].probe = 404
        /\ session[s].downloaded = <<transformers_base_url, "heads", "3.0.0">>

\* C9: convert_model returns (True, stderr) for exit code 0, also with a
\* non-empty stderr, (False, stderr) for any other exit code and
\* (False, exception text) when the launch raised; it never raises.
C9_ConvertResult ==
    \A s \in Sessions :
        LET r == session[s] IN
        Called(s, "convert_model") =>
            /\ r.result.set
            /\ r.proc.kind \in {"exit", "exception"}
            /\ (r.proc.kind = "exit" /\ r.proc.returncode = 0) =>
                  r.result.success /\ r.result.text = r.proc.stderr
            /\ (r.proc.kind = "exit" /\ r.proc.returncode # 0) =>
                  ~r.result.success /\ r.result.text = r.proc.stderr
            /\ r.proc.kind = "exception" =>
                  ~r.result.success /\ r.result.text = r.proc.exc

C9_Witness ==
    \E s \in Sessions :
        /\ session[s].proc.kind = "exit"
        /\ session[s].proc.returncode = 0
        /\ session[s].proc.stderr = "warning"
        /\ session[s].result.success

\* C10: nothing keeps a second session out of the bootstrap: a session at the
\* existence check with the checkout absent can always go on to the probe,
\* wherever the other session is.
C10_NoLock ==
    \A s \in Sessions :
        (session[s].pc = "setup_repository" /\ repo_path = "absent") =>
            ENABLED (setup_repository(s) /\ session'[s].pc = "urlopen")

\* Both sessions passed the check; both downloaded to the one archive path
\* and both are about to rename onto the one checkout path.
C10_Witness ==
    /\ \A s \in Sessions :
          /\ session[s].pc = "rename"
          /\ session[s].downloaded # <<>>
    /\ repo_path = "absent"
====
